---- MODULE Spec2Model ----
(***************************************************************************)
(* The workflow core of gov-info-assistant: the AgentStateDict threaded    *)
(* through the four stage nodes, StateManager, WorkflowRouter,             *)
(* StateTransitionRules, WorkflowConfig (core/workflow/state.py) and the   *)
(* stage nodes, conditional edges and graph of core/workflow/nodes.py.     *)
(*                                                                         *)
(* Conventions.  A Python dict is a TLA+ function whose DOMAIN is the set  *)
(* of keys present; a list is a sequence; a str is a TLA+ string; None is  *)
(* the value None below.  A float score is an integer number of 1/100000   *)
(* (0.3 is 30000, 0.29999 is 29999).  datetime.utcnow() reads the variable *)
(* now, which advances by one tick per reading.                            *)
(***************************************************************************)
EXTENDS Integers, Sequences, FiniteSets, TLC

VARIABLES state, config, now, pc, invoked, decisions, outcomes, result, nerr

vars == <<state, config, now, pc, invoked, decisions, outcomes, result, nerr>>

----------------------------------------------------------------------------
(* Python values *)

None == "<None>"

EmptyDict == <<>>

\* dict.get(k, default)
Get(d, k, default) == IF k \in DOMAIN d THEN d[k] ELSE default

\* d.copy(); d.update(u)
DictUpdate(d, u) ==
  [k \in (DOMAIN d) \cup (DOMAIN u) |-> IF k \in DOMAIN u THEN u[k] ELSE d[k]]

\* truth value of an Optional[str]: None and "" are falsy
Truthy(s) == s # None /\ s # ""

----------------------------------------------------------------------------
(* str methods *)

UpperAlpha == "ABCDEFGHIJKLMNOPQRSTUVWXYZ"
LowerAlpha == "abcdefghijklmnopqrstuvwxyz"

LowerChar(c) ==
  IF \E i \in 1..Len(UpperAlpha) : SubSeq(UpperAlpha, i, i) = c
  THEN LET i == CHOOSE j \in 1..Len(UpperAlpha) : SubSeq(UpperAlpha, j, j) = c
       IN  SubSeq(LowerAlpha, i, i)
  ELSE c

RECURSIVE Lower(_)
\* str.lower()
Lower(s) ==
  IF Len(s) = 0 THEN ""
  ELSE LowerChar(SubSeq(s, 1, 1)) \o Lower(SubSeq(s, 2, Len(s)))

\* w in s
Contains(s, w) ==
  \E i \in 1..(Len(s) - Len(w) + 1) : SubSeq(s, i, i + Len(w) - 1) = w

IsSpace(c) == c \in {" ", "\t", "\n"}

RECURSIVE LStrip(_)
LStrip(s) ==
  IF Len(s) > 0 /\ IsSpace(SubSeq(s, 1, 1)) THEN LStrip(SubSeq(s, 2, Len(s)))
  ELSE s

RECURSIVE RStrip(_)
RStrip(s) ==
  IF Len(s) > 0 /\ IsSpace(SubSeq(s, Len(s), Len(s)))
  THEN RStrip(SubSeq(s, 1, Len(s) - 1))
  ELSE s

\* str.strip()
Strip(s) == RStrip(LStrip(s))

RECURSIVE Rep(_, _)
\* c * n
Rep(c, n) == IF n = 0 THEN "" ELSE c \o Rep(c, n - 1)

----------------------------------------------------------------------------
(* WorkflowNodes: the step names *)

QUERY_ANALYSIS == "query_analysis"
DOCUMENT_RETRIEVAL == "document_retrieval"
CONTENT_PROCESSING == "content_processing"
RESPONSE_GENERATION == "response_generation"
COMPLETED == "completed"
ERROR == "error"

get_processing_nodes ==
  <<QUERY_ANALYSIS, DOCUMENT_RETRIEVAL, CONTENT_PROCESSING, RESPONSE_GENERATION>>

ProcessingSteps == {get_processing_nodes[i] : i \in 1..Len(get_processing_nodes)}

ValidSteps == ProcessingSteps \cup {COMPLETED, ERROR}

----------------------------------------------------------------------------
(* StateManager *)

create_initial_state(session_id, user_query, t) ==
  [ session_id |-> session_id,
    user_query |-> user_query,
    current_step |-> QUERY_ANALYSIS,
    query_keywords |-> <<>>,
    query_entities |-> EmptyDict,
    query_confidence |-> 0,
    search_results |-> <<>>,
    total_results_count |-> 0,
    key_points |-> <<>>,
    step_by_step_guide |-> <<>>,
    terminology_explanations |-> EmptyDict,
    readability_score |-> 0,
    follow_up_questions |-> <<>>,
    related_links |-> <<>>,
    confidence_score |-> 0,
    chat_history |-> <<>>,
    context |-> EmptyDict,
    metadata |-> EmptyDict,
    processing_times |-> EmptyDict,
    created_at |-> t,
    updated_at |-> t,
    retry_count |-> 0 ]

update_state_stale(s, updates, t) == DictUpdate(s, updates)

\* the new dict; the argument is copied, never written
update_state(s, updates, t) ==
  DictUpdate(DictUpdate(s, updates), [updated_at |-> t])

\* one call seen from the caller: arg is the dict that was passed in as it
\* is after the call (new_state = state.copy() leaves it alone), ret the
\* dict returned
update_state_call(s, updates, t) ==
  [arg |-> s, ret |-> update_state(s, updates, t)]

\* utcnow() is read for the updates (t1) and again inside update_state (t2)
set_step(s, step, t1, t2) ==
  update_state(s, [current_step |-> step, updated_at |-> t1], t2)

set_error_fresh(s, error_message, t) ==
  update_state(s, [current_step |-> ERROR,
                   error_message |-> error_message,
                   retry_count |-> Get(s, "retry_count", 0) + 1,
                   processing_times |-> EmptyDict], t)

set_error_plus2(s, error_message, t) ==
  update_state(s, [current_step |-> ERROR,
                   error_message |-> error_message,
                   retry_count |-> Get(s, "retry_count", 0) + 2], t)

set_error(s, error_message, t) ==
  update_state(s, [current_step |-> ERROR,
                   error_message |-> error_message,
                   retry_count |-> Get(s, "retry_count", 0) + 1], t)

add_processing_time_fresh(s, step_name, duration, t) ==
  update_state(s, [processing_times |-> (step_name :> duration)], t)

add_processing_time(s, step_name, duration, t) ==
  LET processing_times ==
        DictUpdate(Get(s, "processing_times", EmptyDict), (step_name :> duration))
  IN  update_state(s, [processing_times |-> processing_times], t)

add_context(s, key, value, t) ==
  LET context == DictUpdate(Get(s, "context", EmptyDict), (key :> value))
  IN  update_state(s, [context |-> context], t)

validate_state(s) ==
  /\ \A f \in {"session_id", "user_query", "current_step"} :
        f \in DOMAIN s /\ Truthy(s[f])
  /\ s["current_step"] \in ValidSteps

is_completed(s) == Get(s, "current_step", None) = COMPLETED

is_error(s) == Get(s, "current_step", None) = ERROR

DefaultMaxRetries == 3

can_retry(s, max_retries) == Get(s, "retry_count", 0) < max_retries

----------------------------------------------------------------------------
(* StateManager.serialize_state and deserialize_state.  json works on typed *)
(* Python objects, so a state is first written out as the object tree it    *)
(* abbreviates: every node is [py |-> its type, v |-> its value].  The      *)
(* fields of AgentStateDict get the type of their annotation; the values of *)
(* the Any-typed containers (context, metadata, query_entities, the dicts   *)
(* of search_results, chat_history and related_links) are kept as trees in  *)
(* the state itself.  An object of a type json does not know carries        *)
(* str |-> str(object).  The serialized form is the JSON document           *)
(* json.dumps writes: objects, arrays, strings, numbers and null.           *)

PyStr(x) == [py |-> "str", v |-> x]
PyInt(x) == [py |-> "int", v |-> x]
PyFloat(x) == [py |-> "float", v |-> x]
PyNone == [py |-> "NoneType"]
PyList(x) == [py |-> "list", v |-> x]
PyTuple(x) == [py |-> "tuple", v |-> x]
PyDict(x) == [py |-> "dict", v |-> x]
PyDatetime(text) == [py |-> "datetime", str |-> text]

\* the annotation of each key of AgentStateDict
FieldType(k) ==
  CASE k \in {"session_id", "user_query", "current_step", "created_at",
              "updated_at"} -> "str"
    [] k \in {"processed_query", "query_intent", "query_category",
              "search_strategy", "simplified_content", "target_difficulty",
              "final_response", "error_message"} -> "Optional[str]"
    [] k \in {"query_keywords", "key_points", "step_by_step_guide",
              "follow_up_questions"} -> "List[str]"
    [] k \in {"query_confidence", "readability_score", "confidence_score"}
         -> "float"
    [] k \in {"total_results_count", "retry_count"} -> "int"
    [] k \in {"search_results", "chat_history", "related_links"}
         -> "List[Dict[str, Any]]"
    [] k = "terminology_explanations" -> "Dict[str, str]"
    [] k = "processing_times" -> "Dict[str, float]"
    [] k \in {"query_entities", "context", "metadata"} -> "Dict[str, Any]"

\* the object a field value of the given annotation stands for
Lift(type, x) ==
  CASE type = "str" -> PyStr(x)
    [] type = "Optional[str]" -> IF x = None THEN PyNone ELSE PyStr(x)
    [] type = "int" -> PyInt(x)
    [] type = "float" -> PyFloat(x)
    [] type = "List[str]" -> PyList([i \in DOMAIN x |-> PyStr(x[i])])
    [] type = "Dict[str, str]" -> PyDict([k \in DOMAIN x |-> PyStr(x[k])])
    [] type = "Dict[str, float]" -> PyDict([k \in DOMAIN x |-> PyFloat(x[k])])
    [] type = "Dict[str, Any]" -> PyDict(x)
    [] type = "List[Dict[str, Any]]" -> PyList([i \in DOMAIN x |-> PyDict(x[i])])

\* the state as the dict object it is
PyTree(s) == PyDict([k \in DOMAIN s |-> Lift(FieldType(k), s[k])])

RECURSIVE dumps(_)
\* json.dumps(o, ensure_ascii=False, default=str), as the document written:
\* a tuple is written as an array like a list, a float with its fraction
\* and an int without, and an object json cannot encode goes through
\* default, which gives str(o)
dumps(o) ==
  CASE o.py = "str" -> [json |-> "string", v |-> o.v]
    [] o.py = "int" -> [json |-> "number", v |-> o.v, fraction |-> FALSE]
    [] o.py = "float" -> [json |-> "number", v |-> o.v, fraction |-> TRUE]
    [] o.py = "NoneType" -> [json |-> "null"]
    [] o.py \in {"list", "tuple"} ->
         [json |-> "array", v |-> [i \in DOMAIN o.v |-> dumps(o.v[i])]]
    [] o.py = "dict" ->
         [json |-> "object", v |-> [k \in DOMAIN o.v |-> dumps(o.v[k])]]
    [] OTHER -> [json |-> "string", v |-> o.str]

RECURSIVE loads(_)
\* json.loads(document)
loads(j) ==
  CASE j.json = "string" -> PyStr(j.v)
    [] j.json = "number" -> IF j.fraction THEN PyFloat(j.v) ELSE PyInt(j.v)
    [] j.json = "null" -> PyNone
    [] j.json = "array" -> PyList([i \in DOMAIN j.v |-> loads(j.v[i])])
    [] j.json = "object" -> PyDict([k \in DOMAIN j.v |-> loads(j.v[k])])

serialize_state(s) == dumps(PyTree(s))

deserialize_state(state_json) == loads(state_json)

----------------------------------------------------------------------------
(* WorkflowRouter.  A WorkflowDecision is a dict; metadata is present only  *)
(* where the code passes it.                                                *)

MinQueryConfidence == 30000
MinContentLength == 10
MinReadability == 30000
MinResponseLength == 10
LowResponseConfidence == 50000
Conf100 == 100000
Conf090 == 90000
Conf060 == 60000
Conf050 == 50000
Conf030 == 30000

route_after_analysis_strict(s) ==
  IF Get(s, "current_step", None) = ERROR
  THEN [next_step |-> ERROR, reason |-> "Analysis failed", confidence |-> Conf100]
  ELSE LET confidence == Get(s, "query_confidence", 0) IN
       IF confidence <= MinQueryConfidence
       THEN [next_step |-> ERROR, reason |-> "Query confidence too low",
             confidence |-> Conf100,
             metadata |-> [min_confidence |-> MinQueryConfidence,
                           actual_confidence |-> confidence]]
       ELSE [next_step |-> DOCUMENT_RETRIEVAL,
             reason |-> "Analysis successful, proceeding to document retrieval",
             confidence |-> confidence]

route_after_analysis(s) ==
  IF Get(s, "current_step", None) = ERROR
  THEN [next_step |-> ERROR, reason |-> "Analysis failed", confidence |-> Conf100]
  ELSE LET confidence == Get(s, "query_confidence", 0) IN
       IF confidence < MinQueryConfidence
       THEN [next_step |-> ERROR, reason |-> "Query confidence too low",
             confidence |-> Conf100,
             metadata |-> [min_confidence |-> MinQueryConfidence,
                           actual_confidence |-> confidence]]
       ELSE [next_step |-> DOCUMENT_RETRIEVAL,
             reason |-> "Analysis successful, proceeding to document retrieval",
             confidence |-> confidence]

route_after_retrieval_three(s) ==
  IF Get(s, "current_step", None) = ERROR
  THEN [next_step |-> ERROR, reason |-> "Document retrieval failed",
        confidence |-> Conf100]
  ELSE LET results_count == Get(s, "total_results_count", 0) IN
       IF results_count = 0
       THEN [next_step |-> ERROR, reason |-> "No documents found",
             confidence |-> Conf100,
             metadata |-> [results_count |-> results_count]]
       ELSE IF results_count < 3
       THEN [next_step |-> CONTENT_PROCESSING,
             reason |-> "Limited results found, proceeding with caution",
             confidence |-> Conf060,
             metadata |-> [results_count |-> results_count,
                           warning |-> "limited_results"]]
       ELSE [next_step |-> CONTENT_PROCESSING,
             reason |-> "Sufficient documents found",
             confidence |-> Conf090,
             metadata |-> [results_count |-> results_count]]

route_after_retrieval(s) ==
  IF Get(s, "current_step", None) = ERROR
  THEN [next_step |-> ERROR, reason |-> "Document retrieval failed",
        confidence |-> Conf100]
  ELSE LET results_count == Get(s, "total_results_count", 0) IN
       IF results_count = 0
       THEN [next_step |-> ERROR, reason |-> "No documents found",
             confidence |-> Conf100,
             metadata |-> [results_count |-> results_count]]
       ELSE IF results_count < 2
       THEN [next_step |-> CONTENT_PROCESSING,
             reason |-> "Limited results found, proceeding with caution",
             confidence |-> Conf060,
             metadata |-> [results_count |-> results_count,
                           warning |-> "limited_results"]]
       ELSE [next_step |-> CONTENT_PROCESSING,
             reason |-> "Sufficient documents found",
             confidence |-> Conf090,
             metadata |-> [results_count |-> results_count]]

route_after_processing_unstripped(s) ==
  IF Get(s, "current_step", None) = ERROR
  THEN [next_step |-> ERROR, reason |-> "Content processing failed",
        confidence |-> Conf100]
  ELSE LET simplified_content == Get(s, "simplified_content", None) IN
       IF ~Truthy(simplified_content)
          \/ Len(simplified_content) < MinContentLength
       THEN [next_step |-> ERROR, reason |-> "Processed content is insufficient",
             confidence |-> Conf100,
             metadata |-> [content_length |->
                             IF Truthy(simplified_content)
                             THEN Len(simplified_content) ELSE 0]]
       ELSE LET readability == Get(s, "readability_score", 0) IN
            IF readability < MinReadability
            THEN [next_step |-> RESPONSE_GENERATION,
                  reason |-> "Low readability but proceeding",
                  confidence |-> Conf060,
                  metadata |-> [readability_score |-> readability,
                                warning |-> "low_readability"]]
            ELSE [next_step |-> RESPONSE_GENERATION,
                  reason |-> "Content processing successful",
                  confidence |-> Conf090,
                  metadata |-> [readability_score |-> readability]]

route_after_processing(s) ==
  IF Get(s, "current_step", None) = ERROR
  THEN [next_step |-> ERROR, reason |-> "Content processing failed",
        confidence |-> Conf100]
  ELSE LET simplified_content == Get(s, "simplified_content", None) IN
       IF ~Truthy(simplified_content)
          \/ Len(Strip(simplified_content)) < MinContentLength
       THEN [next_step |-> ERROR, reason |-> "Processed content is insufficient",
             confidence |-> Conf100,
             metadata |-> [content_length |->
                             IF Truthy(simplified_content)
                             THEN Len(simplified_content) ELSE 0]]
       ELSE LET readability == Get(s, "readability_score", 0) IN
            IF readability < MinReadability
            THEN [next_step |-> RESPONSE_GENERATION,
                  reason |-> "Low readability but proceeding",
                  confidence |-> Conf060,
                  metadata |-> [readability_score |-> readability,
                                warning |-> "low_readability"]]
            ELSE [next_step |-> RESPONSE_GENERATION,
                  reason |-> "Content processing successful",
                  confidence |-> Conf090,
                  metadata |-> [readability_score |-> readability]]

route_after_response_unstripped(s) ==
  IF Get(s, "current_step", None) = ERROR
  THEN [next_step |-> ERROR, reason |-> "Response generation failed",
        confidence |-> Conf100]
  ELSE LET final_response == Get(s, "final_response", None) IN
       IF ~Truthy(final_response)
          \/ Len(final_response) < MinResponseLength
       THEN [next_step |-> ERROR, reason |-> "Generated response is insufficient",
             confidence |-> Conf100,
             metadata |-> [response_length |->
                             IF Truthy(final_response)
                             THEN Len(final_response) ELSE 0]]
       ELSE LET confidence_score == Get(s, "confidence_score", 0) IN
            IF confidence_score < LowResponseConfidence
            THEN [next_step |-> COMPLETED,
                  reason |-> "Response generated with low confidence",
                  confidence |-> confidence_score,
                  metadata |-> [confidence_score |-> confidence_score,
                                warning |-> "low_confidence"]]
            ELSE [next_step |-> COMPLETED,
                  reason |-> "Workflow completed successfully",
                  confidence |-> confidence_score,
                  metadata |-> [confidence_score |-> confidence_score]]

route_after_response_unguarded(s) ==
  LET final_response == Get(s, "final_response", None) IN
  IF ~Truthy(final_response)
     \/ Len(Strip(final_response)) < MinResponseLength
  THEN [next_step |-> ERROR, reason |-> "Generated response is insufficient",
        confidence |-> Conf100,
        metadata |-> [response_length |->
                        IF Truthy(final_response)
                        THEN Len(final_response) ELSE 0]]
  ELSE LET confidence_score == Get(s, "confidence_score", 0) IN
       IF confidence_score < LowResponseConfidence
       THEN [next_step |-> COMPLETED,
             reason |-> "Response generated with low confidence",
             confidence |-> confidence_score,
             metadata |-> [confidence_score |-> confidence_score,
                           warning |-> "low_confidence"]]
       ELSE [next_step |-> COMPLETED,
             reason |-> "Workflow completed successfully",
             confidence |-> confidence_score,
             metadata |-> [confidence_score |-> confidence_score]]

route_after_response(s) ==
  IF Get(s, "current_step", None) = ERROR
  THEN [next_step |-> ERROR, reason |-> "Response generation failed",
        confidence |-> Conf100]
  ELSE LET final_response == Get(s, "final_response", None) IN
       IF ~Truthy(final_response)
          \/ Len(Strip(final_response)) < MinResponseLength
       THEN [next_step |-> ERROR, reason |-> "Generated response is insufficient",
             confidence |-> Conf100,
             metadata |-> [response_length |->
                             IF Truthy(final_response)
                             THEN Len(final_response) ELSE 0]]
       ELSE LET confidence_score == Get(s, "confidence_score", 0) IN
            IF confidence_score < LowResponseConfidence
            THEN [next_step |-> COMPLETED,
                  reason |-> "Response generated with low confidence",
                  confidence |-> confidence_score,
                  metadata |-> [confidence_score |-> confidence_score,
                                warning |-> "low_confidence"]]
            ELSE [next_step |-> COMPLETED,
                  reason |-> "Workflow completed successfully",
                  confidence |-> confidence_score,
                  metadata |-> [confidence_score |-> confidence_score]]

\* the call None.lower() of route_from_error on an error_message of None
Raised == [raised |-> "AttributeError"]

route_from_error_retrieval_first(s) ==
  IF ~can_retry(s, DefaultMaxRetries)
  THEN [next_step |-> ERROR, reason |-> "Maximum retries exceeded",
        confidence |-> Conf100,
        metadata |-> [retry_count |-> Get(s, "retry_count", 0)]]
  ELSE LET error_message == Get(s, "error_message", "") IN
       IF error_message = None THEN Raised
       ELSE LET lowered == Lower(error_message) IN
       IF Contains(lowered, "retrieval")
       THEN [next_step |-> DOCUMENT_RETRIEVAL,
             reason |-> "Retrying from document retrieval",
             confidence |-> Conf050, metadata |-> [retry_from |-> "retrieval"]]
       ELSE IF Contains(lowered, "analysis")
       THEN [next_step |-> QUERY_ANALYSIS,
             reason |-> "Retrying from query analysis",
             confidence |-> Conf050, metadata |-> [retry_from |-> "analysis"]]
       ELSE IF Contains(lowered, "processing")
       THEN [next_step |-> CONTENT_PROCESSING,
             reason |-> "Retrying from content processing",
             confidence |-> Conf050, metadata |-> [retry_from |-> "processing"]]
       ELSE [next_step |-> QUERY_ANALYSIS,
             reason |-> "Retrying from the beginning",
             confidence |-> Conf030, metadata |-> [retry_from |-> "beginning"]]

\* can_retry is called without max_retries: its default applies
route_from_error(s) ==
  IF ~can_retry(s, DefaultMaxRetries)
  THEN [next_step |-> ERROR, reason |-> "Maximum retries exceeded",
        confidence |-> Conf100,
        metadata |-> [retry_count |-> Get(s, "retry_count", 0)]]
  ELSE LET error_message == Get(s, "error_message", "") IN
       IF error_message = None THEN Raised
       ELSE LET lowered == Lower(error_message) IN
       IF Contains(lowered, "analysis")
       THEN [next_step |-> QUERY_ANALYSIS,
             reason |-> "Retrying from query analysis",
             confidence |-> Conf050, metadata |-> [retry_from |-> "analysis"]]
       ELSE IF Contains(lowered, "retrieval")
       THEN [next_step |-> DOCUMENT_RETRIEVAL,
             reason |-> "Retrying from document retrieval",
             confidence |-> Conf050, metadata |-> [retry_from |-> "retrieval"]]
       ELSE IF Contains(lowered, "processing")
       THEN [next_step |-> CONTENT_PROCESSING,
             reason |-> "Retrying from content processing",
             confidence |-> Conf050, metadata |-> [retry_from |-> "processing"]]
       ELSE [next_step |-> QUERY_ANALYSIS,
             reason |-> "Retrying from the beginning",
             confidence |-> Conf030, metadata |-> [retry_from |-> "beginning"]]

----------------------------------------------------------------------------
(* StateTransitionRules *)

VALID_TRANSITIONS_no_error ==
  [ query_analysis |-> {DOCUMENT_RETRIEVAL},
    document_retrieval |-> {CONTENT_PROCESSING, ERROR},
    content_processing |-> {RESPONSE_GENERATION, ERROR},
    response_generation |-> {COMPLETED, ERROR},
    error |-> {QUERY_ANALYSIS, DOCUMENT_RETRIEVAL, CONTENT_PROCESSING,
               RESPONSE_GENERATION},
    completed |-> {QUERY_ANALYSIS} ]

VALID_TRANSITIONS ==
  [ query_analysis |-> {DOCUMENT_RETRIEVAL, ERROR},
    document_retrieval |-> {CONTENT_PROCESSING, ERROR},
    content_processing |-> {RESPONSE_GENERATION, ERROR},
    response_generation |-> {COMPLETED, ERROR},
    error |-> {QUERY_ANALYSIS, DOCUMENT_RETRIEVAL, CONTENT_PROCESSING,
               RESPONSE_GENERATION},
    completed |-> {QUERY_ANALYSIS} ]

is_valid_transition(from_step, to_step) ==
  to_step \in Get(VALID_TRANSITIONS, from_step, {})

get_possible_next_steps(current_step) == Get(VALID_TRANSITIONS, current_step, {})

RetryLimit == 3

validate_state_transition_any_completion(s, new_step) ==
  LET current_step == Get(s, "current_step", None) IN
  IF ~Truthy(current_step) THEN <<FALSE, "Current step is not defined">>
  ELSE IF ~is_valid_transition(current_step, new_step)
  THEN <<FALSE, "Invalid transition from " \o current_step \o " to " \o new_step>>
  ELSE IF new_step = ERROR /\ Get(s, "retry_count", 0) >= RetryLimit
  THEN <<FALSE, "Maximum retry limit reached">>
  ELSE <<TRUE, "Valid transition">>

\* the limit of the error rule is the literal 3, whatever the configuration
validate_state_transition(s, new_step) ==
  LET current_step == Get(s, "current_step", None) IN
  IF ~Truthy(current_step) THEN <<FALSE, "Current step is not defined">>
  ELSE IF ~is_valid_transition(current_step, new_step)
  THEN <<FALSE, "Invalid transition from " \o current_step \o " to " \o new_step>>
  ELSE IF new_step = COMPLETED /\ ~Truthy(Get(s, "final_response", None))
  THEN <<FALSE, "Cannot complete without final response">>
  ELSE IF new_step = ERROR /\ Get(s, "retry_count", 0) >= RetryLimit
  THEN <<FALSE, "Maximum retry limit reached">>
  ELSE <<TRUE, "Valid transition">>

----------------------------------------------------------------------------
(* WorkflowConfig *)

DEFAULT_CONFIG ==
  [ max_retries |-> 3,
    timeout_seconds |-> 300,
    min_confidence_threshold |-> 30000,
    min_results_count |-> 1,
    min_readability_score |-> 30000,
    min_response_length |-> 10,
    enable_parallel_processing |-> FALSE,
    enable_caching |-> TRUE,
    log_level |-> "INFO" ]

\* a custom_config of None or {} is falsy (both are EmptyDict here): the
\* defaults alone
get_config(custom_config) ==
  IF DOMAIN custom_config = {}
  THEN DEFAULT_CONFIG
  ELSE DictUpdate(DEFAULT_CONFIG, custom_config)

validate_config(c) ==
  /\ {"max_retries", "timeout_seconds", "min_confidence_threshold"} \subseteq DOMAIN c
  /\ 0 <= Get(c, "min_confidence_threshold", 0)
  /\ Get(c, "min_confidence_threshold", 0) <= Conf100
  /\ ~(Get(c, "max_retries", 0) < 0)

----------------------------------------------------------------------------
(* The external agents.  An AgentResult is [kind, data, error]: kind "ok"   *)
(* is a successful result carrying data, "fail" an unsuccessful one         *)
(* carrying get_error(), "raise" an exception out of process() whose str()  *)
(* is error.                                                                *)

FailErrors == {None, "timeout", "Analysis service down"}
RaiseTexts == {"", "connection reset"}
Durations == {0, 5}

Failures ==
  {[kind |-> "fail", data |-> None, error |-> e] : e \in FailErrors}
  \cup {[kind |-> "raise", data |-> None, error |-> e] : e \in RaiseTexts}

Ok(data) == [kind |-> "ok", data |-> data, error |-> None]

AnalysisResults ==
  {Ok([processed_query |-> "resident register copy", intent |-> "lookup",
       category |-> "civil", keywords |-> <<"register">>,
       entities |-> EmptyDict, confidence |-> c]) :
     c \in {0, 29999, 30000, 90000}}
  \cup Failures

Doc(i) == [id |-> i, title |-> "t", content |-> "c", category |-> "civil",
           published_date |-> None, difficulty |-> "beginner", score |-> 90000,
           highlights |-> <<>>, metadata |-> EmptyDict]

RetrievalResults ==
  {Ok([documents |-> [i \in 1..n |-> Doc(i)], total_count |-> n,
       search_strategy |-> "hybrid"]) : n \in {0, 1, 3}}
  \cup Failures

ProcessingResults ==
  {Ok([simplified_content |-> c, key_points |-> <<"k">>,
       step_by_step_guide |-> <<>>, terminology_explanations |-> EmptyDict,
       readability_score |-> r]) :
     c \in {"", Rep("a", 9), Rep("a", 10), Rep("a", 120)}, r \in {29999, 80000}}
  \cup Failures

GenerationResults ==
  {Ok([main_response |-> m, follow_up_questions |-> <<"q">>,
       related_links |-> <<>>, confidence_score |-> c]) :
     m \in {"", Rep("r", 9), Rep("r", 10), Rep("r", 80)}, c \in {49999, 85000}}
  \cup Failures

\* f"{result.get_error()}"
Fmt(e) == IF e = None THEN "None" ELSE e

\* the utcnow() readings of one node call: update_state and
\* add_processing_time on success, set_error otherwise
NodeTicks(res) == IF res.kind = "ok" THEN 2 ELSE 1

----------------------------------------------------------------------------
(* WorkflowNodeImplementation: res is what awaiting the agent gave, dur the *)
(* measured processing_time, t the clock on entry.                          *)

query_analysis_node_raising(s, res, dur, t) ==
  IF res.kind = "ok"
  THEN add_processing_time(
         update_state(s, [processed_query |-> res.data.processed_query,
                          query_intent |-> res.data.intent,
                          query_category |-> res.data.category,
                          query_keywords |-> res.data.keywords,
                          query_entities |-> res.data.entities,
                          query_confidence |-> res.data.confidence,
                          current_step |-> QUERY_ANALYSIS], t),
         QUERY_ANALYSIS, dur, t + 1)
  ELSE s

query_analysis_node(s, res, dur, t) ==
  IF res.kind = "raise"
  THEN set_error(s, "Query analysis node error: " \o res.error, t)
  ELSE IF res.kind = "ok"
  THEN add_processing_time(
         update_state(s, [processed_query |-> res.data.processed_query,
                          query_intent |-> res.data.intent,
                          query_category |-> res.data.category,
                          query_keywords |-> res.data.keywords,
                          query_entities |-> res.data.entities,
                          query_confidence |-> res.data.confidence,
                          current_step |-> QUERY_ANALYSIS], t),
         QUERY_ANALYSIS, dur, t + 1)
  ELSE set_error(s, "Query analysis failed: " \o Fmt(res.error), t)

document_retrieval_node(s, res, dur, t) ==
  IF res.kind = "raise"
  THEN set_error(s, "Document retrieval node error: " \o res.error, t)
  ELSE IF res.kind = "ok"
  THEN add_processing_time(
         update_state(s, [search_results |-> res.data.documents,
                          total_results_count |-> res.data.total_count,
                          search_strategy |-> res.data.search_strategy,
                          current_step |-> DOCUMENT_RETRIEVAL], t),
         DOCUMENT_RETRIEVAL, dur, t + 1)
  ELSE set_error(s, "Document retrieval failed: " \o Fmt(res.error), t)

content_processing_node(s, res, dur, t) ==
  IF res.kind = "raise"
  THEN set_error(s, "Content processing node error: " \o res.error, t)
  ELSE IF res.kind = "ok"
  THEN add_processing_time(
         update_state(s, [simplified_content |-> res.data.simplified_content,
                          key_points |-> res.data.key_points,
                          step_by_step_guide |-> res.data.step_by_step_guide,
                          terminology_explanations |->
                            res.data.terminology_explanations,
                          readability_score |-> res.data.readability_score,
                          current_step |-> CONTENT_PROCESSING], t),
         CONTENT_PROCESSING, dur, t + 1)
  ELSE set_error(s, "Content processing failed: " \o Fmt(res.error), t)

response_generation_node(s, res, dur, t) ==
  IF res.kind = "raise"
  THEN set_error(s, "Response generation node error: " \o res.error, t)
  ELSE IF res.kind = "ok"
  THEN add_processing_time(
         update_state(s, [final_response |-> res.data.main_response,
                          follow_up_questions |-> res.data.follow_up_questions,
                          related_links |-> res.data.related_links,
                          confidence_score |-> res.data.confidence_score,
                          current_step |-> RESPONSE_GENERATION], t),
         RESPONSE_GENERATION, dur, t + 1)
  ELSE set_error(s, "Response generation failed: " \o Fmt(res.error), t)

----------------------------------------------------------------------------
(* ConditionalEdgeImplementation: each edge function returns the router's   *)
(* next_step; self.config is stored and never read.                         *)

edge_route_after_analysis(s) == route_after_analysis(s).next_step
edge_route_after_retrieval(s) == route_after_retrieval(s).next_step
edge_route_after_processing(s) == route_after_processing(s).next_step
edge_route_after_response(s) == route_after_response(s).next_step

----------------------------------------------------------------------------
(* WorkflowBuilder.build_graph: four nodes, entry point query_analysis, one *)
(* conditional edge map after each node.  END is the graph's exit: no node  *)
(* runs for "error" or "completed".                                         *)

END == "__end__"

EntryPoint == QUERY_ANALYSIS

EdgesAfterAnalysis_skip ==
  (DOCUMENT_RETRIEVAL :> CONTENT_PROCESSING) @@ (ERROR :> END)

EdgesAfterAnalysis == (DOCUMENT_RETRIEVAL :> DOCUMENT_RETRIEVAL) @@ (ERROR :> END)
EdgesAfterRetrieval == (CONTENT_PROCESSING :> CONTENT_PROCESSING) @@ (ERROR :> END)
EdgesAfterProcessing == (RESPONSE_GENERATION :> RESPONSE_GENERATION) @@ (ERROR :> END)
EdgesAfterResponse == (COMPLETED :> END) @@ (ERROR :> END)

----------------------------------------------------------------------------
(* One run of the compiled graph on a state made by create_initial_state.   *)
(* pc is the node about to run, the conditional edge about to be evaluated, *)
(* or END.  invoked, outcomes, decisions and nerr are history: the stages   *)
(* called, what each agent call gave, what each edge returned, and the      *)
(* number of set_error calls.  result holds the last router decision.       *)

MaxCfgRetries == 4

CustomConfigs ==
  {EmptyDict}
  \cup {[max_retries |-> m] : m \in 0..MaxCfgRetries}
  \cup {[min_confidence_threshold |-> 50000]}
  \cup {[max_retries |-> -1], [min_confidence_threshold |-> 150000]}

SessionIds == {"session-123"}
Queries == {"resident register copy", "tax"}

NoResult == [op |-> "none"]

Init ==
  /\ \E c \in CustomConfigs : config = get_config(c)
  /\ \E sid \in SessionIds, q \in Queries : state = create_initial_state(sid, q, 0)
  /\ now = 1
  /\ pc = EntryPoint
  /\ invoked = <<>>
  /\ decisions = <<>>
  /\ outcomes = <<>>
  /\ result = NoResult
  /\ nerr = 0

\* the history a node call leaves
Called(stage, res) ==
  /\ invoked' = Append(invoked, stage)
  /\ outcomes' = Append(outcomes, res.kind)
  /\ nerr' = IF res.kind = "ok" THEN nerr ELSE nerr + 1
  /\ now' = now + NodeTicks(res)

\* the history an edge evaluation leaves
Routed(edge, next_step, decision) ==
  /\ decisions' = Append(decisions, next_step)
  /\ result' = [op |-> edge, val |-> decision]

QueryAnalysisNode ==
  /\ pc = QUERY_ANALYSIS
  /\ \E res \in AnalysisResults, dur \in Durations :
       /\ state' = query_analysis_node(state, res, dur, now)
       /\ Called(QUERY_ANALYSIS, res)
  /\ pc' = "route_after_analysis"
  /\ UNCHANGED <<config, decisions, result>>

RouteAfterAnalysis ==
  /\ pc = "route_after_analysis"
  /\ pc' = EdgesAfterAnalysis[edge_route_after_analysis(state)]
  /\ Routed(pc, edge_route_after_analysis(state), route_after_analysis(state))
  /\ UNCHANGED <<state, config, now, invoked, outcomes, nerr>>

DocumentRetrievalNode ==
  /\ pc = DOCUMENT_RETRIEVAL
  /\ \E res \in RetrievalResults, dur \in Durations :
       /\ state' = document_retrieval_node(state, res, dur, now)
       /\ Called(DOCUMENT_RETRIEVAL, res)
  /\ pc' = "route_after_retrieval"
  /\ UNCHANGED <<config, decisions, result>>

RouteAfterRetrieval ==
  /\ pc = "route_after_retrieval"
  /\ pc' = EdgesAfterRetrieval[edge_route_after_retrieval(state)]
  /\ Routed(pc, edge_route_after_retrieval(state), route_after_retrieval(state))
  /\ UNCHANGED <<state, config, now, invoked, outcomes, nerr>>

ContentProcessingNode ==
  /\ pc = CONTENT_PROCESSING
  /\ \E res \in ProcessingResults, dur \in Durations :
       /\ state' = content_processing_node(state, res, dur, now)
       /\ Called(CONTENT_PROCESSING, res)
  /\ pc' = "route_after_processing"
  /\ UNCHANGED <<config, decisions, result>>

RouteAfterProcessing ==
  /\ pc = "route_after_processing"
  /\ pc' = EdgesAfterProcessing[edge_route_after_processing(state)]
  /\ Routed(pc, edge_route_after_processing(state), route_after_processing(state))
  /\ UNCHANGED <<state, config, now, invoked, outcomes, nerr>>

ResponseGenerationNode ==
  /\ pc = RESPONSE_GENERATION
  /\ \E res \in GenerationResults, dur \in Durations :
       /\ state' = response_generation_node(state, res, dur, now)
       /\ Called(RESPONSE_GENERATION, res)
  /\ pc' = "route_after_response"
  /\ UNCHANGED <<config, decisions, result>>

RouteAfterResponse ==
  /\ pc = "route_after_response"
  /\ pc' = EdgesAfterResponse[edge_route_after_response(state)]
  /\ Routed(pc, edge_route_after_response(state), route_after_response(state))
  /\ UNCHANGED <<state, config, now, invoked, outcomes, nerr>>

Next ==
  \/ QueryAnalysisNode
  \/ RouteAfterAnalysis
  \/ DocumentRetrievalNode
  \/ RouteAfterRetrieval
  \/ ContentProcessingNode
  \/ RouteAfterProcessing
  \/ ResponseGenerationNode
  \/ RouteAfterResponse

Spec == Init /\ [][Next]_vars

----------------------------------------------------------------------------
(* Properties of a run of the graph (Spec).                                 *)

Last(seq) == seq[Len(seq)]

AllOk == <<"ok", "ok", "ok", "ok">>

\* the run is over and every stage succeeded with the signals of scenario A
ScenarioA ==
  /\ pc = END
  /\ outcomes = AllOk
  /\ state["query_confidence"] = 90000
  /\ state["total_results_count"] = 3
  /\ Len(state["simplified_content"]) = 120
  /\ state["readability_score"] = 80000
  /\ Len(state["final_response"]) = 80
  /\ state["confidence_score"] = 85000

\* C1: a run in which all four stages succeed and pass their gates
\* (confidence 0.9, 3 documents, 120 characters at readability 0.8, 80
\* characters at confidence 0.85) returns a state with current_step
\* "completed", retry_count 0 and exactly four entries in processing_times.
C1_CompletedRun ==
  ScenarioA =>
    /\ state["current_step"] = COMPLETED
    /\ state["retry_count"] = 0
    /\ Cardinality(DOMAIN state["processing_times"]) = 4

\* the run is over and the retrieval stage succeeded reporting 0 documents
ScenarioB ==
  /\ pc = END
  /\ outcomes = <<"ok", "ok">>
  /\ state["total_results_count"] = 0

\* C2: when retrieval succeeds with 0 documents (a quality-gate failure) the
\* returned state has current_step "error", an error_message containing
\* "No documents found" and retry_count 1.
C2_GateFailureMarked ==
  ScenarioB =>
    /\ state["current_step"] = ERROR
    /\ Contains(Get(state, "error_message", ""), "No documents found")
    /\ state["retry_count"] = 1

\* the general form of C2: whenever an edge decided "error" the returned
\* state is marked error with a non-empty error_message
EveryErrorDecisionMarked ==
  (pc = END /\ Last(decisions) = ERROR) =>
    /\ state["current_step"] = ERROR
    /\ Truthy(Get(state, "error_message", None))

\* the stage calls of the run that failed
FailedCalls == {i \in 1..Len(outcomes) : outcomes[i] # "ok"}

\* C3: with max_retries = 3 and a stage that fails on every call, the run is
\* retried until the limit: it ends at current_step "error" with retry_count
\* 3 after exactly three failed stage calls.
C3_RetriedToLimit ==
  (pc = END /\ config["max_retries"] = 3 /\ FailedCalls # {}) =>
    /\ state["current_step"] = ERROR
    /\ state["retry_count"] = 3
    /\ Cardinality(FailedCalls) = 3

\* C5: the stages of a run are called in the order query_analysis,
\* document_retrieval, content_processing, response_generation; stage n+1 is
\* called only after the edge after stage n was evaluated and returned stage
\* n+1; once an edge returns "error" or "completed" the run is at END and no
\* further stage is called.
C5_StrictSequence ==
  /\ Len(invoked) <= Len(get_processing_nodes)
  /\ \A i \in 1..Len(invoked) : invoked[i] = get_processing_nodes[i]
  /\ Len(decisions) \in {Len(invoked), Len(invoked) - 1}
  /\ Len(decisions) = Len(invoked) - 1 => pc = "route_after_" \o
       (CASE Last(invoked) = QUERY_ANALYSIS -> "analysis"
          [] Last(invoked) = DOCUMENT_RETRIEVAL -> "retrieval"
          [] Last(invoked) = CONTENT_PROCESSING -> "processing"
          [] Last(invoked) = RESPONSE_GENERATION -> "response")
  /\ \A i \in 1..Len(decisions) :
       /\ i < Len(invoked) => decisions[i] = invoked[i + 1]
       /\ decisions[i] \in {ERROR, COMPLETED} => pc = END /\ Len(invoked) = i
  /\ (pc \in ProcessingSteps) =>
       /\ Len(decisions) = Len(invoked)
       /\ pc = get_processing_nodes[Len(invoked) + 1]
       /\ (invoked # <<>> => Last(decisions) = pc)

\* a run that the edge after retrieval ended: two stages called, none after
C5_Witness ==
  /\ pc = END
  /\ decisions = <<DOCUMENT_RETRIEVAL, ERROR>>
  /\ invoked = <<QUERY_ANALYSIS, DOCUMENT_RETRIEVAL>>

\* C23: the routing thresholds are configurable: under a config that
\* overrides min_confidence_threshold to c, the edge after analysis proceeds
\* to document_retrieval exactly when query_confidence >= c.
C23_ConfiguredThresholdDecides ==
  (Len(decisions) >= 1 /\ outcomes[1] = "ok") =>
    (decisions[1] = DOCUMENT_RETRIEVAL) =
      (state["query_confidence"] >= config["min_confidence_threshold"])

\* C24: under a configuration that validate_config rejects (a threshold
\* outside [0,1], max_retries < 0) the run fails before any stage: no stage
\* node is ever invoked.
C24_InvalidConfigRunsNothing ==
  ~validate_config(config) => invoked = <<>>

\* C27: after a stage node has been invoked in a run, whether its agent
\* succeeded, returned a failure or raised, processing_times of the
\* returned state has an entry for that stage.
C27_DurationAlwaysRecorded ==
  \A i \in 1..Len(invoked) : invoked[i] \in DOMAIN state["processing_times"]

\* C29: when a stage node fails after the earlier stages succeeded,
\* route_from_error on the returned state (retries remaining) resumes at
\* the stage that failed for query analysis, document retrieval and
\* content processing, whatever error text the agent gave, and at
\* query_analysis for response generation.
C29_ResumesAtFailedStage ==
  (outcomes # <<>> /\ Last(outcomes) # "ok") =>
    route_from_error(state)["next_step"] =
      IF Last(invoked) = RESPONSE_GENERATION THEN QUERY_ANALYSIS
      ELSE Last(invoked)

----------------------------------------------------------------------------
(* The pure functions of StateTransitionRules, StateManager.can_retry and   *)
(* WorkflowRouter.route_from_error, applied to a state and a configuration  *)
(* drawn at the start (SpecRules).  result holds the call and its value.    *)

MaxRetryCount == 5

\* del d[k]
Remove(d, k) == [x \in (DOMAIN d) \ {k} |-> d[x]]

Absent == "<absent>"

\* d with key k set to v, or without k when v is Absent
With(d, k, v) == IF v = Absent THEN Remove(d, k) ELSE DictUpdate(d, (k :> v))

RuleSteps == ValidSteps \cup {Absent, None, "", "archived"}
RuleResponses == {Absent, None, "", " ", Rep("r", 12)}
RuleMessages ==
  {Absent, "Query analysis failed: timeout",
   "Document retrieval failed: Analysis service down",
   "Response generation failed: None"}

RuleStates ==
  {DictUpdate(With(With(With(create_initial_state("session-123", "tax", 0),
                            "current_step", cs),
                       "final_response", fr),
                  "error_message", em),
              [retry_count |-> rc]) :
     cs \in RuleSteps, fr \in RuleResponses, em \in RuleMessages,
     rc \in 0..MaxRetryCount}

NewSteps == ValidSteps \cup {"archived"}

InitRules ==
  /\ \E c \in CustomConfigs : config = get_config(c)
  /\ state \in RuleStates
  /\ now = 1
  /\ pc = "rules"
  /\ invoked = <<>>
  /\ decisions = <<>>
  /\ outcomes = <<>>
  /\ result = NoResult
  /\ nerr = 0

\* is_valid_transition from the state's step to any step
IsValidTransition ==
  /\ pc = "rules" /\ result = NoResult
  /\ \E to_step \in NewSteps :
       LET from_step == Get(state, "current_step", None) IN
       result' = [op |-> "is_valid_transition", from_step |-> from_step,
                  to_step |-> to_step,
                  val |-> is_valid_transition(from_step, to_step)]
  /\ UNCHANGED <<state, config, now, pc, invoked, decisions, outcomes, nerr>>

ValidateStateTransition ==
  /\ pc = "rules" /\ result = NoResult
  /\ \E new_step \in NewSteps :
       result' = [op |-> "validate_state_transition", new_step |-> new_step,
                  val |-> validate_state_transition(state, new_step)]
  /\ UNCHANGED <<state, config, now, pc, invoked, decisions, outcomes, nerr>>

\* can_retry with the configured max_retries
CanRetry ==
  /\ pc = "rules" /\ result = NoResult
  /\ result' = [op |-> "can_retry",
                val |-> can_retry(state, config["max_retries"])]
  /\ UNCHANGED <<state, config, now, pc, invoked, decisions, outcomes, nerr>>

RouteFromError ==
  /\ pc = "rules" /\ result = NoResult
  /\ is_error(state)
  /\ result' = [op |-> "route_from_error", val |-> route_from_error(state)]
  /\ UNCHANGED <<state, config, now, pc, invoked, decisions, outcomes, nerr>>

NextRules ==
  \/ IsValidTransition
  \/ ValidateStateTransition
  \/ CanRetry
  \/ RouteFromError

SpecRules == InitRules /\ [][NextRules]_vars

----------------------------------------------------------------------------
(* Properties of the pure functions (SpecRules).                            *)

\* the fixed table, pair by pair
TransitionTable ==
  { <<QUERY_ANALYSIS, DOCUMENT_RETRIEVAL>>, <<QUERY_ANALYSIS, ERROR>>,
    <<DOCUMENT_RETRIEVAL, CONTENT_PROCESSING>>, <<DOCUMENT_RETRIEVAL, ERROR>>,
    <<CONTENT_PROCESSING, RESPONSE_GENERATION>>, <<CONTENT_PROCESSING, ERROR>>,
    <<RESPONSE_GENERATION, COMPLETED>>, <<RESPONSE_GENERATION, ERROR>>,
    <<ERROR, QUERY_ANALYSIS>>, <<ERROR, DOCUMENT_RETRIEVAL>>,
    <<ERROR, CONTENT_PROCESSING>>, <<ERROR, RESPONSE_GENERATION>>,
    <<COMPLETED, QUERY_ANALYSIS>> }

CurrentStep == Get(state, "current_step", None)

NoCurrentStep == CurrentStep \in {None, ""}

Validated == result.op = "validate_state_transition"

\* C6: is_valid_transition(from, to) is true exactly for the pairs of the
\* fixed table; for a pair outside the table, and for a state without a
\* current_step, validate_state_transition returns false and a non-empty
\* reason.
C6_TableDecides ==
  /\ result.op = "is_valid_transition" =>
       result.val = (<<result.from_step, result.to_step>> \in TransitionTable)
  /\ (Validated /\ (NoCurrentStep
                    \/ <<CurrentStep, result.new_step>> \notin TransitionTable)) =>
       /\ result.val[1] = FALSE
       /\ result.val[2] # ""

\* a pair outside the table was refused
C6_Witness ==
  /\ Validated
  /\ CurrentStep = QUERY_ANALYSIS
  /\ result.new_step = CONTENT_PROCESSING
  /\ result.val[1] = FALSE

\* refused for a reason other than the generic ones
RefusedDistinctly ==
  /\ result.val[1] = FALSE
  /\ ~Contains(result.val[2], "Invalid transition")
  /\ result.val[2] # "Current step is not defined"

\* C7: validate_state_transition(state, "error") from a processing stage is
\* refused with a distinct reason exactly when retry_count has reached the
\* configured max_retries, and accepted while retry_count is below it.
C7_ErrorRefusedAtConfiguredLimit ==
  (Validated /\ result.new_step = ERROR /\ CurrentStep \in ProcessingSteps) =>
    IF state["retry_count"] >= config["max_retries"]
    THEN RefusedDistinctly
    ELSE result.val[1] = TRUE

NoFinalResponse == ~Truthy(Get(state, "final_response", None))

NeedsResponse == <<FALSE, "Cannot complete without final response">>

\* C8 as stated: validate_state_transition(state, "completed") is true only
\* from response_generation with a non-empty final_response, and with
\* final_response absent, None or empty it returns false with the reason
\* that completion requires a final response.
C8_AsStated ==
  (Validated /\ result.new_step = COMPLETED) =>
    /\ result.val[1] = TRUE =>
         CurrentStep = RESPONSE_GENERATION /\ ~NoFinalResponse
    /\ NoFinalResponse => result.val = NeedsResponse

\* C8: validate_state_transition(state, "completed") is true only from
\* response_generation with a non-empty final_response; with final_response
\* absent, None or empty it returns false, with the reason that completion
\* requires a final response when current_step is response_generation and
\* with the undefined-step or invalid-transition reason from any other step.
C8_CompletionNeedsResponse ==
  (Validated /\ result.new_step = COMPLETED) =>
    /\ result.val[1] = TRUE =>
         CurrentStep = RESPONSE_GENERATION /\ ~NoFinalResponse
    /\ NoFinalResponse =>
         /\ result.val[1] = FALSE
         /\ (CurrentStep = RESPONSE_GENERATION) = (result.val = NeedsResponse)
         /\ (CurrentStep # RESPONSE_GENERATION) =>
              \/ result.val[2] = "Current step is not defined"
              \/ Contains(result.val[2], "Invalid transition")

\* completion was refused at response_generation for want of a response
C8_Witness ==
  /\ Validated
  /\ result.new_step = COMPLETED
  /\ CurrentStep = RESPONSE_GENERATION
  /\ Get(state, "final_response", None) = ""
  /\ result.val = NeedsResponse

\* C10: can_retry(state, M) is retry_count < M, and route_from_error routes
\* an error state to terminal "error" exactly when retry_count has reached
\* the configured M, and to a processing stage otherwise.
C10_RetryUsesConfiguredLimit ==
  /\ result.op = "can_retry" =>
       result.val = (state["retry_count"] < config["max_retries"])
  /\ result.op = "route_from_error" =>
       IF state["retry_count"] >= config["max_retries"]
       THEN result.val["next_step"] = ERROR
       ELSE result.val["next_step"] \in ProcessingSteps

\* C11: once an error state's retry_count has reached the maximum (3 by
\* default), validate_state_transition(state, s) returns false for every
\* processing stage s: no transition from error back to a stage is permitted.
C11_NoRetryTransitionAtLimit ==
  (/\ Validated
   /\ CurrentStep = ERROR
   /\ state["retry_count"] >= config["max_retries"]
   /\ result.new_step \in ProcessingSteps) =>
    result.val[1] = FALSE

----------------------------------------------------------------------------
(* Any sequence of at most MaxOps calls of the StateManager operations, the *)
(* stage nodes and the router functions on one state, starting from         *)
(* create_initial_state (SpecMgr).  invoked is the history of calls, result *)
(* the last call, nerr the number of set_error calls made, directly or by a *)
(* failing node.                                                            *)

MaxOps == 3

MgrSteps == {DOCUMENT_RETRIEVAL, COMPLETED, "archived"}
MgrMessages == {"", "analysis failed"}
MgrTimes == {<<QUERY_ANALYSIS, 7>>, <<"custom_step", -1>>}
MgrPatches ==
  { [current_step |-> ERROR],
    [current_step |-> RESPONSE_GENERATION, final_response |-> "rrrrrrrrrrrr",
     confidence_score |-> 85000],
    [processed_query |-> "tax", updated_at |-> 99] }

MgrFailures ==
  { [kind |-> "fail", data |-> None, error |-> None],
    [kind |-> "raise", data |-> None, error |-> ""] }

MgrAnalysisResults ==
  {Ok([processed_query |-> "resident register copy", intent |-> "lookup",
       category |-> "civil", keywords |-> <<"register">>,
       entities |-> EmptyDict, confidence |-> 90000])} \cup MgrFailures

MgrRetrievalResults ==
  {Ok([documents |-> <<Doc(1)>>, total_count |-> 1,
       search_strategy |-> "hybrid"])} \cup MgrFailures

MgrProcessingResults ==
  {Ok([simplified_content |-> "aaaaaaaaaa", key_points |-> <<"k">>,
       step_by_step_guide |-> <<>>, terminology_explanations |-> EmptyDict,
       readability_score |-> 80000])} \cup MgrFailures

MgrGenerationResults ==
  {Ok([main_response |-> "rrrrrrrrrr", follow_up_questions |-> <<"q">>,
       related_links |-> <<>>, confidence_score |-> 49999])} \cup MgrFailures

MgrDuration == 5

InitMgr ==
  /\ config = get_config(EmptyDict)
  /\ state = create_initial_state("session-123", "tax", 0)
  /\ now = 1
  /\ pc = "manager"
  /\ invoked = <<>>
  /\ decisions = <<>>
  /\ outcomes = <<>>
  /\ result = NoResult
  /\ nerr = 0

MayCall == pc = "manager" /\ Len(invoked) < MaxOps

SetStep ==
  /\ MayCall
  /\ \E step \in MgrSteps : state' = set_step(state, step, now, now + 1)
  /\ now' = now + 2
  /\ invoked' = Append(invoked, "set_step")
  /\ result' = [op |-> "set_step"]
  /\ UNCHANGED <<config, pc, decisions, outcomes, nerr>>

SetError ==
  /\ MayCall
  /\ \E msg \in MgrMessages : state' = set_error(state, msg, now)
  /\ now' = now + 1
  /\ nerr' = nerr + 1
  /\ invoked' = Append(invoked, "set_error")
  /\ result' = [op |-> "set_error"]
  /\ UNCHANGED <<config, pc, decisions, outcomes>>

AddProcessingTime ==
  /\ MayCall
  /\ \E sd \in MgrTimes :
       /\ state' = add_processing_time(state, sd[1], sd[2], now)
       /\ result' = [op |-> "add_processing_time", step_name |-> sd[1],
                     duration |-> sd[2]]
  /\ now' = now + 1
  /\ invoked' = Append(invoked, "add_processing_time")
  /\ UNCHANGED <<config, pc, decisions, outcomes, nerr>>

AddContext ==
  /\ MayCall
  /\ state' = add_context(state, "language", PyStr("ko"), now)
  /\ now' = now + 1
  /\ invoked' = Append(invoked, "add_context")
  /\ result' = [op |-> "add_context"]
  /\ UNCHANGED <<config, pc, decisions, outcomes, nerr>>

UpdateState ==
  /\ MayCall
  /\ \E updates \in MgrPatches : state' = update_state(state, updates, now)
  /\ now' = now + 1
  /\ invoked' = Append(invoked, "update_state")
  /\ result' = [op |-> "update_state"]
  /\ UNCHANGED <<config, pc, decisions, outcomes, nerr>>

\* the history a direct node call leaves
NodeCalled(name, res) ==
  /\ now' = now + NodeTicks(res)
  /\ nerr' = IF res.kind = "ok" THEN nerr ELSE nerr + 1
  /\ invoked' = Append(invoked, name)
  /\ result' = [op |-> name, kind |-> res.kind]
  /\ UNCHANGED <<config, pc, decisions, outcomes>>

CallQueryAnalysisNode ==
  /\ MayCall
  /\ \E res \in MgrAnalysisResults :
       /\ state' = query_analysis_node(state, res, MgrDuration, now)
       /\ NodeCalled(QUERY_ANALYSIS, res)

CallDocumentRetrievalNode ==
  /\ MayCall
  /\ \E res \in MgrRetrievalResults :
       /\ state' = document_retrieval_node(state, res, MgrDuration, now)
       /\ NodeCalled(DOCUMENT_RETRIEVAL, res)

CallContentProcessingNode ==
  /\ MayCall
  /\ \E res \in MgrProcessingResults :
       /\ state' = content_processing_node(state, res, MgrDuration, now)
       /\ NodeCalled(CONTENT_PROCESSING, res)

\* len(state.get("simplified_content", "")) is evaluated before the try:
\* the agent is reached only when simplified_content is not None
CallResponseGenerationNode ==
  /\ MayCall
  /\ Get(state, "simplified_content", "") # None
  /\ \E res \in MgrGenerationResults :
       /\ state' = response_generation_node(state, res, MgrDuration, now)
       /\ NodeCalled(RESPONSE_GENERATION, res)

RouterNames ==
  {"route_after_analysis", "route_after_retrieval", "route_after_processing",
   "route_after_response", "route_from_error"}

CallOf(r, s) ==
  CASE r = "route_after_analysis" -> route_after_analysis(s)
    [] r = "route_after_retrieval" -> route_after_retrieval(s)
    [] r = "route_after_processing" -> route_after_processing(s)
    [] r = "route_after_response" -> route_after_response(s)
    [] r = "route_from_error" -> route_from_error(s)

\* a router function is called on the state; it returns a decision
CallRouter ==
  /\ MayCall
  /\ \E r \in RouterNames :
       /\ result' = [op |-> r, val |-> CallOf(r, state)]
       /\ invoked' = Append(invoked, r)
  /\ UNCHANGED <<state, config, now, pc, decisions, outcomes, nerr>>

NextMgr ==
  \/ SetStep
  \/ SetError
  \/ AddProcessingTime
  \/ AddContext
  \/ UpdateState
  \/ CallQueryAnalysisNode
  \/ CallDocumentRetrievalNode
  \/ CallContentProcessingNode
  \/ CallResponseGenerationNode
  \/ CallRouter

SpecMgr == InitMgr /\ [][NextMgr]_vars

----------------------------------------------------------------------------
(* Properties of the StateManager operations and the stage nodes (SpecMgr). *)

\* how each node's error message names its stage
StagePhrase(stage) ==
  CASE stage = QUERY_ANALYSIS -> "Query analysis"
    [] stage = DOCUMENT_RETRIEVAL -> "Document retrieval"
    [] stage = CONTENT_PROCESSING -> "Content processing"
    [] stage = RESPONSE_GENERATION -> "Response generation"

\* this step is a call of a stage node whose agent raised or failed
NodeFailing == result'.op \in ProcessingSteps /\ result'.kind # "ok"

\* C4: when the agent's process call raises or returns an unsuccessful
\* result, each of the four stage nodes returns a state with current_step
\* "error", a non-empty error_message naming the failing stage, and
\* retry_count one larger than on entry.
C4_FailureBecomesError ==
  [][NodeFailing =>
       /\ state'["current_step"] = ERROR
       /\ "error_message" \in DOMAIN state'
       /\ Truthy(state'["error_message"])
       /\ Contains(state'["error_message"], StagePhrase(result'.op))
       /\ state'["retry_count"] = Get(state, "retry_count", 0) + 1]_vars

\* the response generator raised on a state that had already failed once
C4_Witness ==
  /\ result.op = RESPONSE_GENERATION
  /\ result.kind = "raise"
  /\ state["current_step"] = ERROR
  /\ state["retry_count"] = 2

\* C9: from create_initial_state (retry_count 0) each set_error call adds
\* exactly 1 to retry_count, so after N calls it is N; set_step,
\* add_processing_time, add_context, a successful stage node and the router
\* functions leave it unchanged, and it never decreases.
C9_RetryCountMonotonic ==
  [][LET before == Get(state, "retry_count", 0)
         after == Get(state', "retry_count", 0)
     IN  /\ result'.op = "set_error" => after = before + 1
         /\ result'.op \in {"set_step", "add_processing_time", "add_context"}
                           \cup RouterNames => after = before
         /\ (result'.op \in ProcessingSteps /\ result'.kind = "ok") =>
              after = before
         /\ after >= before
         /\ after = nerr']_vars

\* three set_error calls in a row
C9_Witness ==
  /\ invoked = <<"set_error", "set_error", "set_error">>
  /\ state["retry_count"] = 3

\* C12: in every state reachable through the StateManager operations and the
\* stage nodes, current_step "completed" implies that final_response is
\* present and non-empty; set_step(state, "completed") cannot produce a
\* completed state without a final response.
C12_CompletedHasResponse ==
  is_completed(state) => Truthy(Get(state, "final_response", None))

\* C13: in every state reachable through the StateManager operations and the
\* stage nodes, current_step "error" implies that error_message is present
\* and non-empty.
C13_ErrorHasMessage ==
  is_error(state) => Truthy(Get(state, "error_message", None))

\* C16: processing_times is append-only over any sequence of
\* add_processing_time, set_error, set_step, add_context calls and stage-node
\* executions: a stage name that has an entry keeps an entry in every later
\* state, and add_processing_time adds or overwrites exactly one key and
\* keeps all the others.
C16_ProcessingTimesAppendOnly ==
  [][LET before == Get(state, "processing_times", EmptyDict)
         after == Get(state', "processing_times", EmptyDict)
     IN  /\ DOMAIN before \subseteq DOMAIN after
         /\ result'.op = "add_processing_time" =>
              /\ DOMAIN after = DOMAIN before \cup {result'.step_name}
              /\ after[result'.step_name] = result'.duration
              /\ \A k \in DOMAIN before \ {result'.step_name} :
                   after[k] = before[k]]_vars

\* the entry a successful node recorded outlived a set_error call and the
\* recording of another step
C16_Witness ==
  /\ invoked = <<QUERY_ANALYSIS, "set_error", "add_processing_time">>
  /\ DOMAIN state["processing_times"] = {QUERY_ANALYSIS, "custom_step"}
  /\ state["processing_times"][QUERY_ANALYSIS] = MgrDuration

----------------------------------------------------------------------------
(* Single calls of the StateManager operations and of the four boundary     *)
(* routers on arguments drawn at the start (SpecCalls).  state is the dict  *)
(* the caller holds and passes in; result holds the call, its arguments and *)
(* what it gave.                                                            *)

\* d without the keys ks
Without(d, ks) == [k \in (DOMAIN d) \ ks |-> d[k]]

SignalKeys ==
  {"query_confidence", "total_results_count", "simplified_content",
   "readability_score", "final_response", "confidence_score"}

MissingKeys == {{}, {"current_step"}, SignalKeys}

\* states with every combination of the quality signals around their
\* thresholds, marked error or not, and states lacking the keys
RouterStates ==
  {Without(DictUpdate(create_initial_state("session-123", "tax", 0),
                      [current_step |-> cs, query_confidence |-> qc,
                       total_results_count |-> n, simplified_content |-> sc,
                       readability_score |-> rs, final_response |-> fr,
                       confidence_score |-> c]), missing) :
     cs \in {ERROR, QUERY_ANALYSIS}, qc \in {0, 29999, 30000, 90000},
     n \in {0, 1, 2, 3},
     sc \in {None, "aaaaaaaaa", "aaaaaaaaaa", " aaaaaaaaa "},
     rs \in {29999, 80000},
     fr \in {"", "rrrrrrrrr", "rrrrrrrrrr", "rrrrrrrrr\n\n"},
     c \in {49999, 85000}, missing \in MissingKeys}

\* values passed to add_context(state, key, value: Any)
ContextValues ==
  {PyStr("ko"), PyNone, PyList(<<>>), PyDict(EmptyDict),
   PyList(<<PyStr("citizen"), PyInt(2)>>),
   PyTuple(<<PyInt(37), PyInt(127)>>),
   PyDatetime("2024-01-15 10:30:00")}

ValuePatches ==
  { [processed_query |-> "tax"],
    [query_keywords |-> <<"k1", "k2">>,
     search_results |->
       <<[id |-> PyStr("doc1"), title |-> PyStr("t1"), score |-> PyFloat(90000)],
         [id |-> PyStr("doc2"), title |-> PyStr("t2"), score |-> PyFloat(80000),
          highlights |-> PyList(<<>>), metadata |-> PyDict(EmptyDict)]>>,
     context |-> [user_type |-> PyStr("citizen"), language |-> PyStr("ko")]],
    [terminology_explanations |-> [levy |-> "a tax"], simplified_content |-> None] }

\* create_initial_state followed by update_state, set_error,
\* add_processing_time and add_context calls
ValueStates ==
  LET s0 == create_initial_state("session-789", "complex query", 0) IN
  {s0}
  \cup {add_context(
          add_processing_time(update_state(s0, u, 1), QUERY_ANALYSIS, 5, 2),
          "note", v, 3) : u \in ValuePatches, v \in ContextValues}
  \cup {add_context(set_error(update_state(s0, u, 1), "timeout", 2),
                    "note", v, 3) : u \in ValuePatches, v \in ContextValues}

ErrorMessages ==
  {"", "Query analysis failed: timeout",
   "Document retrieval failed: Analysis service down",
   "Content processing failed: retrieval index empty",
   "Content processing node error: ",
   "Response generation failed: None",
   "DOCUMENT RETRIEVAL TIMED OUT"}

\* error states with and without an error_message, retries left or not
ErrorStates ==
  {Without(DictUpdate(create_initial_state("session-123", "tax", 0),
                      [current_step |-> ERROR, error_message |-> em,
                       retry_count |-> rc]), missing) :
     em \in ErrorMessages, rc \in 0..DefaultMaxRetries,
     missing \in {{}, {"error_message"}}}

CallPatches ==
  { [current_step |-> DOCUMENT_RETRIEVAL, total_results_count |-> 3],
    [processed_query |-> "tax", updated_at |-> 99],
    [updated_at |-> 99],
    EmptyDict }

CallSessionIds == {"", "session-123"}
CallQueries == {"", "tax"}
CallMessages == {"", "timeout"}
CallTimes == {<<QUERY_ANALYSIS, -1>>, <<QUERY_ANALYSIS, 0>>, <<"custom_step", 5>>}

InitCalls ==
  /\ config = get_config(EmptyDict)
  /\ state \in RouterStates \cup ValueStates \cup ErrorStates
  /\ now = 4
  /\ pc = "call"
  /\ invoked = <<>>
  /\ decisions = <<>>
  /\ outcomes = <<>>
  /\ result = NoResult
  /\ nerr = 0

MayCallOnce == pc = "call" /\ result = NoResult

CreateInitialStateCall ==
  /\ MayCallOnce
  /\ \E session_id \in CallSessionIds, user_query \in CallQueries :
       result' = [op |-> "create_initial_state", session_id |-> session_id,
                  user_query |-> user_query,
                  val |-> create_initial_state(session_id, user_query, now)]
  /\ now' = now + 1
  /\ UNCHANGED <<state, config, pc, invoked, decisions, outcomes, nerr>>

SetErrorCall ==
  /\ MayCallOnce
  /\ \E error_message \in CallMessages :
       result' = [op |-> "set_error", error_message |-> error_message,
                  val |-> set_error(state, error_message, now)]
  /\ now' = now + 1
  /\ UNCHANGED <<state, config, pc, invoked, decisions, outcomes, nerr>>

AddProcessingTimeCall ==
  /\ MayCallOnce
  /\ \E sd \in CallTimes :
       result' = [op |-> "add_processing_time", step_name |-> sd[1],
                  duration |-> sd[2],
                  val |-> add_processing_time(state, sd[1], sd[2], now)]
  /\ now' = now + 1
  /\ UNCHANGED <<state, config, pc, invoked, decisions, outcomes, nerr>>

UpdateStateCall ==
  /\ MayCallOnce
  /\ \E updates \in CallPatches :
       LET call == update_state_call(state, updates, now) IN
       /\ state' = call.arg
       /\ result' = [op |-> "update_state", passed |-> state,
                     updates |-> updates, t |-> now, val |-> call.ret]
  /\ now' = now + 1
  /\ UNCHANGED <<config, pc, invoked, decisions, outcomes, nerr>>

\* deserialize_state(serialize_state(state))
SerializeRoundTrip ==
  /\ MayCallOnce
  /\ result' = [op |-> "deserialize_state",
                val |-> deserialize_state(serialize_state(state))]
  /\ UNCHANGED <<state, config, now, pc, invoked, decisions, outcomes, nerr>>

RouteAfterAnalysisCall ==
  /\ MayCallOnce
  /\ result' = [op |-> "route_after_analysis", val |-> route_after_analysis(state)]
  /\ UNCHANGED <<state, config, now, pc, invoked, decisions, outcomes, nerr>>

RouteAfterRetrievalCall ==
  /\ MayCallOnce
  /\ result' = [op |-> "route_after_retrieval",
                val |-> route_after_retrieval(state)]
  /\ UNCHANGED <<state, config, now, pc, invoked, decisions, outcomes, nerr>>

RouteAfterProcessingCall ==
  /\ MayCallOnce
  /\ result' = [op |-> "route_after_processing",
                val |-> route_after_processing(state)]
  /\ UNCHANGED <<state, config, now, pc, invoked, decisions, outcomes, nerr>>

RouteAfterResponseCall ==
  /\ MayCallOnce
  /\ result' = [op |-> "route_after_response",
                val |-> route_after_response(state)]
  /\ UNCHANGED <<state, config, now, pc, invoked, decisions, outcomes, nerr>>

RouteFromErrorCall ==
  /\ MayCallOnce
  /\ result' = [op |-> "route_from_error", val |-> route_from_error(state)]
  /\ UNCHANGED <<state, config, now, pc, invoked, decisions, outcomes, nerr>>

NextCalls ==
  \/ CreateInitialStateCall
  \/ SetErrorCall
  \/ AddProcessingTimeCall
  \/ UpdateStateCall
  \/ SerializeRoundTrip
  \/ RouteAfterAnalysisCall
  \/ RouteAfterRetrievalCall
  \/ RouteAfterProcessingCall
  \/ RouteAfterResponseCall
  \/ RouteFromErrorCall

SpecCalls == InitCalls /\ [][NextCalls]_vars

----------------------------------------------------------------------------
(* Properties of single calls (SpecCalls).                                  *)

\* what a call rejected for its arguments would give instead of a state
InvalidArgument == [raised |-> "InvalidArgument"]

\* the call made had an empty session_id or user_query, a negative duration
\* or an empty error message
MalformedCall ==
  \/ /\ result.op = "create_initial_state"
     /\ (result.session_id = "" \/ result.user_query = "")
  \/ /\ result.op = "add_processing_time"
     /\ result.duration < 0
  \/ /\ result.op = "set_error"
     /\ result.error_message = ""

\* C14: create_initial_state with an empty session_id or user_query,
\* add_processing_time with a negative duration and set_error with an empty
\* message each fail with InvalidArgument instead of returning a state.
C14_MalformedInputRejected ==
  MalformedCall => result.val = InvalidArgument

\* C15: update_state(state, updates) leaves the state passed in as it was;
\* the returned state has the value of updates for every key of updates
\* other than updated_at, the input's value for every other key, and
\* updated_at set to the time of the call even when updates carries one.
C15_UpdateStateFrame ==
  result.op = "update_state" =>
    /\ state = result.passed
    /\ DOMAIN result.val =
         DOMAIN result.passed \cup DOMAIN result.updates \cup {"updated_at"}
    /\ \A k \in DOMAIN result.updates \ {"updated_at"} :
         result.val[k] = result.updates[k]
    /\ \A k \in DOMAIN result.passed \ (DOMAIN result.updates \cup {"updated_at"}) :
         result.val[k] = result.passed[k]
    /\ result.val["updated_at"] = result.t

\* updates carried another updated_at and one ordinary key
C15_Witness ==
  /\ result.op = "update_state"
  /\ DOMAIN result.updates = {"processed_query", "updated_at"}
  /\ result.updates["updated_at"] # result.t
  /\ result.val["processed_query"] = "tax"
  /\ "error_message" \in DOMAIN result.passed

\* C17: for every state made by create_initial_state followed by
\* update_state, set_error, add_processing_time and add_context calls,
\* deserialize_state(serialize_state(s)) is structurally equal to s in every
\* field.
C17_RoundTrip ==
  result.op = "deserialize_state" => result.val = PyTree(state)

RECURSIVE OnlyJsonTypes(_)
\* an object built of str, int, float, None, list and dict alone
OnlyJsonTypes(o) ==
  CASE o.py \in {"str", "int", "float", "NoneType"} -> TRUE
    [] o.py \in {"list", "dict"} -> \A k \in DOMAIN o.v : OnlyJsonTypes(o.v[k])
    [] OTHER -> FALSE

\* the round trip does give back every state built of those types alone
RoundTripOfJsonTypes ==
  (result.op = "deserialize_state" /\ OnlyJsonTypes(PyTree(state))) =>
    result.val = PyTree(state)

BoundaryRouters == RouterNames \ {"route_from_error"}

\* C18: each of route_after_analysis, route_after_retrieval,
\* route_after_processing and route_after_response, given a state with
\* current_step "error", returns next_step "error" with confidence 1.0
\* whatever the quality signals of the state are.
C18_ErrorShortCircuits ==
  (result.op \in BoundaryRouters /\ is_error(state)) =>
    /\ result.val["next_step"] = ERROR
    /\ result.val["confidence"] = 100000

\* every signal of the error state was above its threshold
C18_Witness ==
  /\ result.op = "route_after_response"
  /\ SignalKeys \subseteq DOMAIN state
  /\ is_error(state)
  /\ state["query_confidence"] = 90000
  /\ state["total_results_count"] = 3
  /\ state["simplified_content"] = "aaaaaaaaaa"
  /\ state["readability_score"] = 80000
  /\ state["final_response"] = "rrrrrrrrrr"
  /\ state["confidence_score"] = 85000
  /\ result.val["next_step"] = ERROR

\* C19: for a non-error state route_after_analysis routes to
\* document_retrieval exactly when query_confidence >= 0.3; 0.3 itself
\* proceeds, anything below and a missing query_confidence route to error;
\* when it proceeds the decision's confidence is the state's
\* query_confidence.
C19_AnalysisThreshold ==
  (result.op = "route_after_analysis" /\ ~is_error(state)) =>
    /\ "query_confidence" \notin DOMAIN state => result.val["next_step"] = ERROR
    /\ "query_confidence" \in DOMAIN state =>
         IF state["query_confidence"] >= 30000
         THEN /\ result.val["next_step"] = DOCUMENT_RETRIEVAL
              /\ result.val["confidence"] = state["query_confidence"]
         ELSE result.val["next_step"] = ERROR

\* a query_confidence of exactly 0.3 proceeded
C19_Witness ==
  /\ result.op = "route_after_analysis"
  /\ ~is_error(state)
  /\ Get(state, "query_confidence", 0) = 30000
  /\ result.val["next_step"] = DOCUMENT_RETRIEVAL
  /\ result.val["confidence"] = 30000

\* C20: for a non-error state route_after_retrieval decides on
\* total_results_count: 0 routes to error with reason "No documents found",
\* exactly 1 to content_processing with confidence 0.6 and the metadata
\* warning "limited_results", 2 or more to content_processing with
\* confidence 0.9 and no warning.
C20_RetrievalCount ==
  (/\ result.op = "route_after_retrieval"
   /\ ~is_error(state)
   /\ "total_results_count" \in DOMAIN state) =>
    LET n == state["total_results_count"]
        metadata == Get(result.val, "metadata", EmptyDict)
    IN  /\ n = 0 => /\ result.val["next_step"] = ERROR
                    /\ result.val["reason"] = "No documents found"
        /\ n = 1 => /\ result.val["next_step"] = CONTENT_PROCESSING
                    /\ result.val["confidence"] = 60000
                    /\ Get(metadata, "warning", None) = "limited_results"
        /\ n >= 2 => /\ result.val["next_step"] = CONTENT_PROCESSING
                     /\ result.val["confidence"] = 90000
                     /\ "warning" \notin DOMAIN metadata

\* exactly two documents proceeded without a warning
C20_Witness ==
  /\ result.op = "route_after_retrieval"
  /\ ~is_error(state)
  /\ Get(state, "total_results_count", 0) = 2
  /\ result.val["confidence"] = 90000

\* the warning annotation of the decision made, None without one
Warning == Get(Get(result.val, "metadata", EmptyDict), "warning", None)

SimplifiedContent == Get(state, "simplified_content", None)

ProcessingRouted == result.op = "route_after_processing" /\ ~is_error(state)

\* what route_after_processing does with readability once the content passes
ReadabilityOnlyWarns ==
  LET readability == Get(state, "readability_score", 0) IN
  result.val["next_step"] = RESPONSE_GENERATION =>
    IF readability < 30000
    THEN result.val["confidence"] = 60000 /\ Warning = "low_readability"
    ELSE result.val["confidence"] = 90000 /\ Warning = None

\* C21 as stated: for a non-error state route_after_processing routes to
\* response_generation exactly when simplified_content has at least 10
\* characters, to error otherwise; a readability_score below 0.3 never
\* blocks, it only lowers the confidence to 0.6 and adds the warning
\* "low_readability".
C21_AsStated ==
  ProcessingRouted =>
    /\ IF Truthy(SimplifiedContent) /\ Len(SimplifiedContent) >= 10
       THEN result.val["next_step"] = RESPONSE_GENERATION
       ELSE result.val["next_step"] = ERROR
    /\ ReadabilityOnlyWarns

\* C21: for a non-error state route_after_processing routes to
\* response_generation exactly when simplified_content, with leading and
\* trailing whitespace stripped, has at least 10 characters, and to error
\* otherwise (absent, None, empty or shorter once stripped); a
\* readability_score below 0.3 never blocks, it only lowers the confidence
\* to 0.6 and adds the warning "low_readability".
C21_StrippedContentLength ==
  ProcessingRouted =>
    /\ IF Truthy(SimplifiedContent) /\ Len(Strip(SimplifiedContent)) >= 10
       THEN result.val["next_step"] = RESPONSE_GENERATION
       ELSE result.val["next_step"] = ERROR
    /\ ReadabilityOnlyWarns

\* eleven characters, nine of them inside the whitespace, were refused
C21_Witness ==
  /\ ProcessingRouted
  /\ SimplifiedContent = " aaaaaaaaa "
  /\ result.val["next_step"] = ERROR

FinalResponse == Get(state, "final_response", None)

ResponseRouted == result.op = "route_after_response" /\ ~is_error(state)

\* what route_after_response does with confidence_score once the response
\* passes
ConfidenceOnlyWarns ==
  result.val["next_step"] = COMPLETED =>
    (Warning = "low_confidence") = (Get(state, "confidence_score", 0) < 50000)

\* C22 as stated: for a non-error state route_after_response routes to
\* error only when final_response is absent, empty or shorter than 10
\* characters; any final_response of at least 10 characters routes to
\* completed whatever confidence_score is, with the warning "low_confidence"
\* exactly when confidence_score < 0.5.
C22_AsStated ==
  ResponseRouted =>
    /\ IF Truthy(FinalResponse) /\ Len(FinalResponse) >= 10
       THEN result.val["next_step"] = COMPLETED
       ELSE result.val["next_step"] = ERROR
    /\ ConfidenceOnlyWarns

\* C22: for a non-error state route_after_response routes to error only on
\* the length of final_response with leading and trailing whitespace
\* stripped (absent, empty or shorter than 10 characters once stripped);
\* otherwise it routes to completed whatever confidence_score is, with the
\* warning "low_confidence" exactly when confidence_score < 0.5.
C22_StrippedResponseLength ==
  ResponseRouted =>
    /\ IF Truthy(FinalResponse) /\ Len(Strip(FinalResponse)) >= 10
       THEN result.val["next_step"] = COMPLETED
       ELSE result.val["next_step"] = ERROR
    /\ ConfidenceOnlyWarns

\* a response of ten characters completed at confidence 0.49999, flagged
C22_Witness ==
  /\ ResponseRouted
  /\ FinalResponse = "rrrrrrrrrr"
  /\ Get(state, "confidence_score", 0) = 49999
  /\ result.val["next_step"] = COMPLETED
  /\ Warning = "low_confidence"

\* the lowercased error_message has w in it
Mentions(w) == Contains(Lower(Get(state, "error_message", "")), w)

StageBefore(router) ==
  CASE router = "route_after_analysis" -> QUERY_ANALYSIS
    [] router = "route_after_retrieval" -> DOCUMENT_RETRIEVAL
    [] router = "route_after_processing" -> CONTENT_PROCESSING
    [] router = "route_after_response" -> RESPONSE_GENERATION
    [] OTHER -> ERROR

\* C28: every routing decision is a legal move of the transition table: for
\* each of the five router functions called on a state at its own stage or
\* already in error, is_valid_transition(current_step, next_step) holds,
\* the error short-circuit and route_from_error with retries exhausted
\* included.
C28_DecisionsAreLegalMoves ==
  (/\ result.op \in RouterNames
   /\ (is_error(state) \/ CurrentStep = StageBefore(result.op))) =>
    is_valid_transition(CurrentStep, result.val["next_step"])

\* C30: set_error changes only current_step, error_message, retry_count and
\* updated_at: every other field of the returned state equals its value in
\* the input state, so the output of earlier stages is kept.
C30_SetErrorFrame ==
  result.op = "set_error" =>
    LET changed == {"current_step", "error_message", "retry_count", "updated_at"}
    IN  /\ DOMAIN result.val = DOMAIN state \cup changed
        /\ \A k \in DOMAIN state \ changed : result.val[k] = state[k]

\* the search results and the recorded duration outlived set_error
C30_Witness ==
  /\ result.op = "set_error"
  /\ Len(state["search_results"]) = 2
  /\ QUERY_ANALYSIS \in DOMAIN state["processing_times"]
  /\ result.val["current_step"] = ERROR
  /\ result.val["search_results"] = state["search_results"]
  /\ result.val["processing_times"] = state["processing_times"]

\* C26: in every state reachable through the StateManager operations and
\* the stage nodes, current_step is one of query_analysis,
\* document_retrieval, content_processing, response_generation, completed,
\* error: no operation stores an arbitrary string in it.
C26_CurrentStepDefined ==
  CurrentStep \in ValidSteps

====
